---------------------------- MODULE Spec2Model ----------------------------
(***************************************************************************)
(* Dataset layer (seq2seq_vc/datasets/audio_mel_dataset.py) and decode     *)
(* driver (seq2seq_vc/bin/vc_decode.py) of seq2seq-vc.                     *)
(*                                                                         *)
(* Strings are sequences of one-character strings, so that basename,       *)
(* splitext, str.replace, the "in" test and sorted() are computed the way  *)
(* Python computes them.  A directory tree is a function from the path of  *)
(* each file below the root (relative to the root) to the primary-axis     *)
(* length of the array the injected load function returns for that file.   *)
(***************************************************************************)
EXTENDS Integers, Sequences, FiniteSets, TLC

(***************************************************************************)
(* Bounds of the model.                                                    *)
(***************************************************************************)
MaxFiles == 3
MaxLen == 1
NumWorkers == 2
MaxCalls == 3

(***************************************************************************)
(* Python strings.                                                         *)
(***************************************************************************)
\* The characters of the model in code-point order ("*" 42, "-" 45, "." 46,
\* "/" 47, digits, lower-case letters): str comparison is by code point.
Alphabet ==
    << "*", "-", ".", "/", "1", "2", "3", "5", "a", "b", "d", "e", "f", "h",
       "n", "p", "s", "t", "u", "v", "w", "y" >>

code_point ==
    [c \in { Alphabet[k] : k \in 1..Len(Alphabet) } |->
        CHOOSE k \in 1..Len(Alphabet) : Alphabet[k] = c]

ord(c) == code_point[c]

Min(a, b) == IF a <= b THEN a ELSE b

\* s < t for Python str: the first differing character decides, a proper
\* prefix is smaller.
StrLess(s, t) ==
    \E k \in 1..(Min(Len(s), Len(t)) + 1) :
        /\ \A j \in 1..(k - 1) : s[j] = t[j]
        /\ \/ k > Len(s) /\ k <= Len(t)
           \/ k <= Len(s) /\ k <= Len(t) /\ ord(s[k]) < ord(t[k])

\* s.startswith(p)
StartsWith(s, p) ==
    /\ Len(p) <= Len(s)
    /\ \A j \in 1..Len(p) : s[j] = p[j]

\* p in s (substring test)
Contains(s, p) ==
    \E k \in 0..(Len(s) - Len(p)) : \A j \in 1..Len(p) : s[k + j] = p[j]

\* s[k:] with k counted from 1
Drop(s, k) == SubSeq(s, k, Len(s))

\* s.replace(old, ""): every non-overlapping occurrence of old, left to
\* right, is removed.
RECURSIVE replace(_, _)
replace(s, old) ==
    IF Len(s) < Len(old) \/ Len(old) = 0 THEN s
    ELSE IF StartsWith(s, old) THEN replace(Drop(s, Len(old) + 1), old)
    ELSE <<Head(s)>> \o replace(Tail(s), old)

\* index of the last occurrence of c in s, 0 when there is none (str.rfind + 1)
rfind(s, c) ==
    IF \E k \in 1..Len(s) : s[k] = c
    THEN CHOOSE k \in 1..Len(s) : s[k] = c /\ \A j \in (k + 1)..Len(s) : s[j] # c
    ELSE 0

\* os.path.basename(p): what follows the last "/".
basename(p) == Drop(p, rfind(p, "/") + 1)

\* os.path.splitext(p)[0]: p up to its last ".", unless that dot is one of
\* the leading dots of the last path component (then p has no extension).
splitext0(p) ==
    LET sep == rfind(p, "/")
        dot == rfind(p, ".")
    IN  IF dot > sep /\ \E k \in (sep + 1)..(dot - 1) : p[k] # "."
        THEN SubSeq(p, 1, dot - 1)
        ELSE p

\* sorted() of a collection of distinct strings: ascending order.
RECURSIVE sorted(_)
sorted(S) ==
    IF S = {} THEN <<>>
    ELSE LET m == CHOOSE x \in S : \A y \in S \ {x} : StrLess(x, y)
         IN  <<m>> \o sorted(S \ {m})

\* list.insert keeping ascending order, after the equal elements.
RECURSIVE Insert(_, _)
Insert(x, l) ==
    IF l = <<>> THEN <<x>>
    ELSE IF StrLess(x, Head(l)) THEN <<x>> \o l
    ELSE <<Head(l)>> \o Insert(x, Tail(l))

\* sorted() of a list of strings that may repeat.
RECURSIVE sorted_list(_)
sorted_list(l) ==
    IF l = <<>> THEN <<>> ELSE Insert(Head(l), sorted_list(Tail(l)))

\* set(l)
set(l) == { l[k] : k \in 1..Len(l) }


(***************************************************************************)
(* Python values: str, numpy array, tuple.  None is the empty option.      *)
(***************************************************************************)
None == <<>>
Some(v) == <<v>>

str(s) == [kind |-> "str", val |-> s]
tuple(elems) == [kind |-> "tuple", elems |-> elems]

\* The array a load function returns for a file: it is identified by the
\* root and the file it was read from and by the function that read it; its
\* shape[0] is what the tree records for the file.
ndarray(root, tree, fn, f) ==
    [kind |-> "ndarray", root |-> root, file |-> f, load_fn |-> fn,
     shape0 |-> tree[f]]

\* len(): the number of elements of a tuple, shape[0] of an array.
len(v) ==
    CASE v.kind = "tuple" -> Len(v.elems)
      [] v.kind = "ndarray" -> v.shape0
      [] v.kind = "str" -> Len(v.val)

(***************************************************************************)
(* File names and queries.                                                 *)
(***************************************************************************)
ext_h5 == <<".", "h", "5">>
ext_npy == <<".", "n", "p", "y">>
wave_npy == <<"-", "w", "a", "v", "e">> \o ext_npy
feats_npy == <<"-", "f", "e", "a", "t", "s">> \o ext_npy

query_h5 == <<"*">> \o ext_h5
query_wave == <<"*">> \o wave_npy
query_feats == <<"*">> \o feats_npy

u1 == <<"u", "1">>
u2 == <<"u", "2">>
u3 == <<"u", "3">>

\* fnmatch.fnmatchcase(name, pat) for patterns of literals and "*".
RECURSIVE fnmatch(_, _)
fnmatch(name, pat) ==
    IF pat = <<>> THEN name = <<>>
    ELSE IF Head(pat) = "*"
         THEN \E k \in 1..(Len(name) + 1) : fnmatch(Drop(name, k), Tail(pat))
         ELSE /\ name # <<>>
              /\ Head(name) = Head(pat)
              /\ fnmatch(Tail(name), Tail(pat))

\* find_files(root_dir, query): every file below the root, at any depth,
\* whose name matches the query; the order of the walk is unspecified, so
\* the result is a set (every caller sorts it).
find_files(tree, query) ==
    { f \in DOMAIN tree : fnmatch(basename(f), query) }

\* The directory trees of at most MaxFiles files over a catalog of paths.
Trees(catalog, lens) ==
    UNION { [D -> lens] :
              D \in { S \in SUBSET catalog : Cardinality(S) <= MaxFiles } }

(***************************************************************************)
(* Exceptions and log records.                                             *)
(***************************************************************************)
NoError == [type |-> "none"]
AssertionError(msg) == [type |-> "AssertionError", msg |-> msg]
IndexError(line) == [type |-> "IndexError", line |-> line]
AttributeError(name) == [type |-> "AttributeError", name |-> name]

warning(what, before, after) ==
    [level |-> "warning", what |-> what, before |-> before, after |-> after]

(***************************************************************************)
(* The dataset object.  A field a class does not have stays empty.         *)
(* Indices are counted from 1 (Python's idx + 1).                          *)
(***************************************************************************)
NoDataset ==
    [class |-> "none", audio_files |-> <<>>, mel_files |-> <<>>,
     src_mel_files |-> <<>>, trg_mel_files |-> <<>>, utt_ids |-> <<>>,
     return_utt_id |-> FALSE, allow_cache |-> FALSE]

\* the outcome of a constructor: the object, or the exception it raised,
\* and the log records it emitted before.
Built(obj, log) == [self |-> obj, raised |-> NoError, log |-> log]
Raised(exc, log) == [self |-> NoDataset, raised |-> exc, log |-> log]

\* the assertion left out: an empty list is accepted
not_found_any_never(files) == FALSE

\* the condition the "assert len(...) != 0" of every constructor rejects
not_found_any(files) == Len(files) = 0

\* [() for _ in range(n)]
empty_caches(n) == [k \in 1..n |-> tuple(<<>>)]

\* ascending list of a set of indices
RECURSIVE ascending(_)
ascending(S) ==
    IF S = {} THEN <<>>
    ELSE LET m == CHOOSE x \in S : \A y \in S : x <= y
         IN  <<m>> \o ascending(S \ {m})

\* the comparison made non-strict: a length equal to the threshold is kept
idxs_over_or_equal(lengths, threshold) ==
    ascending({ idx \in 1..Len(lengths) : lengths[idx] >= threshold })

\* [idx for idx in range(len(lengths)) if lengths[idx] > threshold]
idxs_over(lengths, threshold) ==
    ascending({ idx \in 1..Len(lengths) : lengths[idx] > threshold })

\* [load_fn(f).shape[0] for f in files]
lengths_of(tree, files) == [k \in 1..Len(files) |-> tree[files[k]]]

\* [files[idx] for idx in idxs] raises IndexError when an idx is out of range
in_range(files, idxs) == \A k \in 1..Len(idxs) : idxs[k] <= Len(files)
take(files, idxs) == [k \in 1..Len(idxs) |-> files[idxs[k]]]

\* utterance ids of AudioMelDataset and AudioDataset
utt_ids_wave(query, files) ==
    IF Contains(query, ext_npy)
    THEN [k \in 1..Len(files) |-> replace(basename(files[k]), wave_npy)]
    ELSE [k \in 1..Len(files) |-> splitext0(basename(files[k]))]

\* utterance ids of MelDataset
utt_ids_feats(query, files) ==
    IF Contains(query, ext_npy)
    THEN [k \in 1..Len(files) |-> replace(basename(files[k]), feats_npy)]
    ELSE [k \in 1..Len(files) |-> splitext0(basename(files[k]))]

\* utterance ids of ParallelVCMelDataset (before its sort) and
\* SourceVCMelDataset
utt_ids_stem(files) ==
    [k \in 1..Len(files) |-> splitext0(basename(files[k]))]

(***************************************************************************)
(* The constructors.  Each is the whole __init__: discovery, the length    *)
(* filter, the assertions, the utterance ids and the cache.                *)
(***************************************************************************)
\* AudioMelDataset.__init__
AudioMelDataset__init__(tree, audio_query, mel_query, audio_length_threshold, mel_length_threshold, return_utt_id, allow_cache) ==
    LET audio_files0 == sorted(find_files(tree, audio_query))
        mel_files0 == sorted(find_files(tree, mel_query))
        \* if audio_length_threshold is not None:
        a_on == audio_length_threshold # None
        a_idxs == idxs_over(lengths_of(tree, audio_files0),
                            audio_length_threshold[1])
        a_log == IF a_on /\ Len(audio_files0) # Len(a_idxs)
                 THEN <<warning("audio", Len(audio_files0), Len(a_idxs))>>
                 ELSE <<>>
        a_raise == a_on /\ ~in_range(mel_files0, a_idxs)
        audio_files1 == IF a_on THEN take(audio_files0, a_idxs)
                        ELSE audio_files0
        mel_files1 == IF a_on THEN take(mel_files0, a_idxs) ELSE mel_files0
        \* if mel_length_threshold is not None:
        m_on == mel_length_threshold # None
        m_idxs == idxs_over(lengths_of(tree, mel_files1),
                            mel_length_threshold[1])
        m_log == IF m_on /\ Len(mel_files1) # Len(m_idxs)
                 THEN <<warning("mel", Len(mel_files1), Len(m_idxs))>>
                 ELSE <<>>
        m_raise == m_on /\ ~in_range(audio_files1, m_idxs)
        audio_files == IF m_on THEN take(audio_files1, m_idxs)
                       ELSE audio_files1
        mel_files == IF m_on THEN take(mel_files1, m_idxs) ELSE mel_files1
    IN  IF a_raise THEN Raised(IndexError(68), a_log)
        ELSE IF m_raise THEN Raised(IndexError(81), a_log \o m_log)
        ELSE IF not_found_any(audio_files)
        THEN Raised(AssertionError([text |-> "Not found any audio files"]),
                    a_log \o m_log)
        ELSE IF Len(audio_files) # Len(mel_files)
        THEN Raised(AssertionError(
                        [text |-> "Number of audio and mel files are different",
                         audio |-> Len(audio_files), mel |-> Len(mel_files)]),
                    a_log \o m_log)
        ELSE Built([NoDataset EXCEPT
                        !.class = "AudioMelDataset",
                        !.audio_files = audio_files,
                        !.mel_files = mel_files,
                        !.utt_ids = utt_ids_wave(audio_query, audio_files),
                        !.return_utt_id = return_utt_id,
                        !.allow_cache = allow_cache],
                   a_log \o m_log)

\* AudioDataset.__init__
AudioDataset__init__(tree, audio_query, audio_length_threshold, return_utt_id, allow_cache) ==
    LET audio_files0 == sorted(find_files(tree, audio_query))
        a_on == audio_length_threshold # None
        a_idxs == idxs_over(lengths_of(tree, audio_files0),
                            audio_length_threshold[1])
        \* logging.waning(...): the logging module has no such attribute
        a_raise == a_on /\ Len(audio_files0) # Len(a_idxs)
        audio_files == IF a_on THEN take(audio_files0, a_idxs)
                       ELSE audio_files0
    IN  IF a_raise THEN Raised(AttributeError("waning"), <<>>)
        ELSE IF not_found_any(audio_files)
        THEN Raised(AssertionError([text |-> "Not found any audio files"]),
                    <<>>)
        ELSE Built([NoDataset EXCEPT
                        !.class = "AudioDataset",
                        !.audio_files = audio_files,
                        !.utt_ids = utt_ids_wave(audio_query, audio_files),
                        !.return_utt_id = return_utt_id,
                        !.allow_cache = allow_cache],
                   <<>>)

\* MelDataset.__init__
MelDataset__init__(tree, mel_query, mel_length_threshold, return_utt_id, allow_cache) ==
    LET mel_files0 == sorted(find_files(tree, mel_query))
        m_on == mel_length_threshold # None
        m_idxs == idxs_over(lengths_of(tree, mel_files0),
                            mel_length_threshold[1])
        m_log == IF m_on /\ Len(mel_files0) # Len(m_idxs)
                 THEN <<warning("mel", Len(mel_files0), Len(m_idxs))>>
                 ELSE <<>>
        mel_files == IF m_on THEN take(mel_files0, m_idxs) ELSE mel_files0
    IN  IF not_found_any(mel_files)
        THEN Raised(AssertionError([text |-> "Not found any mel files"]),
                    m_log)
        ELSE Built([NoDataset EXCEPT
                        !.class = "MelDataset",
                        !.mel_files = mel_files,
                        !.utt_ids = utt_ids_feats(mel_query, mel_files),
                        !.return_utt_id = return_utt_id,
                        !.allow_cache = allow_cache],
                   m_log)

\* list(zip(a, b)): as long as the shorter list
zip(a, b) == [k \in 1..Min(Len(a), Len(b)) |-> <<a[k], b[k]>>]

\* ParallelVCMelDataset.__init__
ParallelVCMelDataset__init__(src_tree, trg_tree, mel_query, return_utt_id, allow_cache) ==
    LET src_mel_files == sorted(find_files(src_tree, mel_query))
        trg_mel_files == sorted(find_files(trg_tree, mel_query))
        src_utt_ids == sorted_list(utt_ids_stem(src_mel_files))
        trg_utt_ids == sorted_list(utt_ids_stem(trg_mel_files))
    IN  IF not_found_any(src_mel_files)
        THEN Raised(AssertionError([text |-> "Not found any mel files",
                                    root |-> "src"]), <<>>)
        ELSE IF not_found_any(trg_mel_files)
        THEN Raised(AssertionError([text |-> "Not found any mel files",
                                    root |-> "trg"]), <<>>)
        ELSE IF set(src_utt_ids) # set(trg_utt_ids)
        THEN Raised(AssertionError(
                        [text |-> "utt ids",
                         src |-> Cardinality(set(src_utt_ids)),
                         trg |-> Cardinality(set(trg_utt_ids)),
                         difference |-> set(src_utt_ids) \ set(trg_utt_ids)]),
                    <<>>)
        ELSE Built([NoDataset EXCEPT
                        !.class = "ParallelVCMelDataset",
                        !.src_mel_files = src_mel_files,
                        !.trg_mel_files = trg_mel_files,
                        !.utt_ids = src_utt_ids,
                        !.mel_files = zip(src_mel_files, trg_mel_files),
                        !.return_utt_id = return_utt_id,
                        !.allow_cache = allow_cache],
                   <<>>)

\* SourceVCMelDataset.__init__
SourceVCMelDataset__init__(src_tree, mel_query, return_utt_id, allow_cache) ==
    LET src_mel_files == sorted(find_files(src_tree, mel_query))
    IN  IF not_found_any(src_mel_files)
        THEN Raised(AssertionError([text |-> "Not found any mel files",
                                    root |-> "src"]), <<>>)
        ELSE Built([NoDataset EXCEPT
                        !.class = "SourceVCMelDataset",
                        !.src_mel_files = src_mel_files,
                        !.utt_ids = utt_ids_stem(src_mel_files),
                        !.return_utt_id = return_utt_id,
                        !.allow_cache = allow_cache],
                   <<>>)

\* __len__ of the five classes
__len__(obj) ==
    CASE obj.class = "AudioMelDataset" -> Len(obj.audio_files)
      [] obj.class = "AudioDataset" -> Len(obj.audio_files)
      [] obj.class = "MelDataset" -> Len(obj.mel_files)
      [] obj.class = "ParallelVCMelDataset" -> Len(obj.mel_files)
      [] obj.class = "SourceVCMelDataset" -> Len(obj.src_mel_files)
      [] OTHER -> 0

(***************************************************************************)
(* __getitem__.  The outcome is the returned items, the cache after the    *)
(* call and the number of load-function calls made.                        *)
(***************************************************************************)
Got(items, new_caches, loads) ==
    [items |-> items, caches |-> new_caches, loads |-> loads]

\* if self.allow_cache and len(self.caches[idx]) != 0
cache_hit(obj, cache, idx) == obj.allow_cache /\ len(cache[idx]) # 0

\* the assignment landing in the first slot whatever idx is
store_in_first_slot(obj, cache, idx, items) ==
    IF obj.allow_cache THEN [cache EXCEPT ![1] = items] ELSE cache

\* if self.allow_cache: self.caches[idx] = items
store(obj, cache, idx, items) ==
    IF obj.allow_cache THEN [cache EXCEPT ![idx] = items] ELSE cache

\* AudioMelDataset.__getitem__
AudioMelDataset__getitem__(obj, disk, cache, idx) ==
    IF cache_hit(obj, cache, idx) THEN Got(cache[idx], cache, 0)
    ELSE LET utt_id == str(obj.utt_ids[idx])
             audio == ndarray("src", disk.src, "audio_load_fn",
                              obj.audio_files[idx])
             mel == ndarray("src", disk.src, "mel_load_fn",
                            obj.mel_files[idx])
             items == IF obj.return_utt_id THEN tuple(<<utt_id, audio, mel>>)
                      ELSE tuple(<<audio, mel>>)
         IN  Got(items, store(obj, cache, idx, items), 2)

\* AudioDataset.__getitem__
AudioDataset__getitem__(obj, disk, cache, idx) ==
    IF cache_hit(obj, cache, idx) THEN Got(cache[idx], cache, 0)
    ELSE LET utt_id == str(obj.utt_ids[idx])
             audio == ndarray("src", disk.src, "audio_load_fn",
                              obj.audio_files[idx])
             items == IF obj.return_utt_id THEN tuple(<<utt_id, audio>>)
                      ELSE audio
         IN  Got(items, store(obj, cache, idx, items), 1)

\* MelDataset.__getitem__
MelDataset__getitem__(obj, disk, cache, idx) ==
    IF cache_hit(obj, cache, idx) THEN Got(cache[idx], cache, 0)
    ELSE LET utt_id == str(obj.utt_ids[idx])
             mel == ndarray("src", disk.src, "mel_load_fn", obj.mel_files[idx])
             items == IF obj.return_utt_id THEN tuple(<<utt_id, mel>>)
                      ELSE mel
         IN  Got(items, store(obj, cache, idx, items), 1)

\* ParallelVCMelDataset.__getitem__
ParallelVCMelDataset__getitem__(obj, disk, cache, idx) ==
    IF cache_hit(obj, cache, idx) THEN Got(cache[idx], cache, 0)
    ELSE LET utt_id == str(obj.utt_ids[idx])
             src_mel == ndarray("src", disk.src, "src_load_fn",
                                obj.mel_files[idx][1])
             trg_mel == ndarray("trg", disk.trg, "trg_load_fn",
                                obj.mel_files[idx][2])
             items == IF obj.return_utt_id
                      THEN tuple(<<utt_id, src_mel, trg_mel>>)
                      ELSE tuple(<<src_mel, trg_mel>>)
         IN  Got(items, store(obj, cache, idx, items), 2)

\* SourceVCMelDataset.__getitem__
SourceVCMelDataset__getitem__(obj, disk, cache, idx) ==
    IF cache_hit(obj, cache, idx) THEN Got(cache[idx], cache, 0)
    ELSE LET utt_id == str(obj.utt_ids[idx])
             src_mel == ndarray("src", disk.src, "mel_load_fn",
                                obj.src_mel_files[idx])
             items == IF obj.return_utt_id THEN tuple(<<utt_id, src_mel>>)
                      ELSE src_mel
         IN  Got(items, store(obj, cache, idx, items), 1)

(***************************************************************************)
(* State.                                                                  *)
(***************************************************************************)
VARIABLES
    fs,       \* the directory trees: [src |-> tree, trg |-> tree]
    args,     \* the constructor's queries and thresholds
    self,     \* the dataset object (NoDataset before and after a failure)
    caches,   \* self.caches, the manager's shared list
    raised,   \* the exception that ended the constructor or the driver
    log,      \* the warnings logged
    last,     \* the last __getitem__ call: idx, items returned, loads made,
              \* and whether an earlier call of the same idx had returned
    first,    \* what the first __getitem__ call of each idx returned
    pc,       \* the decode driver's position in main()
    cli,      \* the driver's parsed command line
    env,      \* the disk as the driver finds it: whether outdir exists
    io,       \* what the driver has set up, read and created so far
    written,  \* the per-utterance artifacts the driver has written
    idx,      \* the number of utterances the driver's loop has finished
    workers,  \* the worker processes sharing self.caches: each one's
              \* position in __getitem__, its idx and its local items
    stores,   \* how many times self.caches[idx] = items ran, per slot
    calls     \* the number of dataset[i] calls the workers have started

dataset_vars == <<fs, args, self, caches, raised, log, last, first>>
driver_vars == <<pc, cli, env, io, written, idx>>
worker_vars == <<workers, stores, calls>>
vars == <<fs, args, self, caches, raised, log, last, first, pc, cli, env, io,
          written, idx, workers, stores, calls>>

NoTree == <<>>
NoArgs ==
    [class |-> "none", audio_query |-> <<>>, mel_query |-> <<>>,
     audio_length_threshold |-> None, mel_length_threshold |-> None]
NoCall == [idx |-> 0, items |-> tuple(<<>>), loads |-> 0, again |-> FALSE]
NoCli == [feats_scp |-> FALSE, dumpdir |-> FALSE, verbose |-> 1]
NoEnv == [outdir |-> FALSE]
NoIo == [level |-> "", makedirs |-> FALSE, config |-> FALSE,
         vocoder_type |-> "", trg_stats |-> FALSE, model |-> FALSE,
         vocoder |-> FALSE]

(***************************************************************************)
(* Inputs.                                                                 *)
(***************************************************************************)
Lens == 0..MaxLen
Thresholds == {None} \cup { Some(t) : t \in 0..(MaxLen - 1) }

h5(id) == id \o ext_h5
in_dir(d, f) == <<d, "/">> \o f

AudioMelCatalog ==
    { h5(u1), h5(u2), u1 \o wave_npy, u2 \o wave_npy, u1 \o feats_npy }
AudioMelQueries == { <<query_h5, query_h5>>, <<query_wave, query_feats>> }
AudioCatalog == { u1 \o wave_npy, u2 \o wave_npy, u3 \o wave_npy, h5(u1) }
AudioQueries == { query_wave, query_h5 }
MelCatalog == { u1 \o feats_npy, u2 \o feats_npy, u3 \o feats_npy, h5(u1) }
MelQueries == { query_feats, query_h5 }
ParallelCatalog ==
    { h5(<<"a">>), h5(<<"a", "-", "b">>), h5(<<"b">>),
      in_dir("d", h5(<<"a">>)), u1 \o feats_npy }

(***************************************************************************)
(* Actions of the dataset layer.                                           *)
(***************************************************************************)
Fresh == self.class = "none" /\ raised = NoError /\ pc = "idle"

\* the constructor's outcome becomes the state
Construct(out) ==
    /\ self' = out.self
    /\ raised' = out.raised
    /\ log' = log \o out.log
    /\ caches' = IF out.self.allow_cache
                 THEN empty_caches(__len__(out.self))
                 ELSE <<>>
    /\ last' = NoCall
    /\ first' = empty_caches(__len__(out.self))

NewAudioMelDataset ==
    /\ Fresh
    /\ \E tree \in Trees(AudioMelCatalog, Lens), q \in AudioMelQueries,
          ta \in Thresholds, tm \in Thresholds,
          return_utt_id \in BOOLEAN, allow_cache \in BOOLEAN :
          /\ fs' = [src |-> tree, trg |-> NoTree]
          /\ args' = [class |-> "AudioMelDataset",
                      audio_query |-> q[1], mel_query |-> q[2],
                      audio_length_threshold |-> ta,
                      mel_length_threshold |-> tm]
          /\ Construct(AudioMelDataset__init__(tree, q[1], q[2], ta, tm,
                                               return_utt_id, allow_cache))
    /\ UNCHANGED driver_vars
    /\ UNCHANGED worker_vars

NewAudioDataset ==
    /\ Fresh
    /\ \E tree \in Trees(AudioCatalog, Lens), q \in AudioQueries,
          ta \in Thresholds,
          return_utt_id \in BOOLEAN, allow_cache \in BOOLEAN :
          /\ fs' = [src |-> tree, trg |-> NoTree]
          /\ args' = [NoArgs EXCEPT !.class = "AudioDataset",
                                    !.audio_query = q,
                                    !.audio_length_threshold = ta]
          /\ Construct(AudioDataset__init__(tree, q, ta, return_utt_id,
                                            allow_cache))
    /\ UNCHANGED driver_vars
    /\ UNCHANGED worker_vars

NewMelDataset ==
    /\ Fresh
    /\ \E tree \in Trees(MelCatalog, Lens), q \in MelQueries,
          tm \in Thresholds,
          return_utt_id \in BOOLEAN, allow_cache \in BOOLEAN :
          /\ fs' = [src |-> tree, trg |-> NoTree]
          /\ args' = [NoArgs EXCEPT !.class = "MelDataset",
                                    !.mel_query = q,
                                    !.mel_length_threshold = tm]
          /\ Construct(MelDataset__init__(tree, q, tm, return_utt_id,
                                          allow_cache))
    /\ UNCHANGED driver_vars
    /\ UNCHANGED worker_vars

NewParallelVCMelDataset ==
    /\ Fresh
    /\ \E src_tree \in Trees(ParallelCatalog, {MaxLen}),
          trg_tree \in Trees(ParallelCatalog, {MaxLen}), q \in MelQueries,
          return_utt_id \in BOOLEAN, allow_cache \in BOOLEAN :
          /\ fs' = [src |-> src_tree, trg |-> trg_tree]
          /\ args' = [NoArgs EXCEPT !.class = "ParallelVCMelDataset",
                                    !.mel_query = q]
          /\ Construct(ParallelVCMelDataset__init__(src_tree, trg_tree, q,
                                                    return_utt_id,
                                                    allow_cache))
    /\ UNCHANGED driver_vars
    /\ UNCHANGED worker_vars

NewSourceVCMelDataset ==
    /\ Fresh
    /\ \E src_tree \in Trees(MelCatalog, Lens), q \in MelQueries,
          return_utt_id \in BOOLEAN, allow_cache \in BOOLEAN :
          /\ fs' = [src |-> src_tree, trg |-> NoTree]
          /\ args' = [NoArgs EXCEPT !.class = "SourceVCMelDataset",
                                    !.mel_query = q]
          /\ Construct(SourceVCMelDataset__init__(src_tree, q, return_utt_id,
                                                  allow_cache))
    /\ UNCHANGED driver_vars
    /\ UNCHANGED worker_vars

\* dataset[i]: dispatch on the class of the object
__getitem__(obj, disk, cache, i) ==
    CASE obj.class = "AudioMelDataset" ->
             AudioMelDataset__getitem__(obj, disk, cache, i)
      [] obj.class = "AudioDataset" ->
             AudioDataset__getitem__(obj, disk, cache, i)
      [] obj.class = "MelDataset" ->
             MelDataset__getitem__(obj, disk, cache, i)
      [] obj.class = "ParallelVCMelDataset" ->
             ParallelVCMelDataset__getitem__(obj, disk, cache, i)
      [] obj.class = "SourceVCMelDataset" ->
             SourceVCMelDataset__getitem__(obj, disk, cache, i)

\* a caller's dataset[i], for an index in range(len(dataset))
GetItem(class) ==
    /\ pc = "idle"
    /\ self.class = class
    /\ \E i \in 1..__len__(self) :
          LET got == __getitem__(self, fs, caches, i)
          IN  /\ caches' = got.caches
              /\ last' = [idx |-> i, items |-> got.items, loads |-> got.loads,
                          again |-> first[i] # tuple(<<>>)]
              /\ first' = IF first[i] = tuple(<<>>)
                          THEN [first EXCEPT ![i] = got.items]
                          ELSE first
    /\ UNCHANGED <<fs, args, self, raised, log>>
    /\ UNCHANGED driver_vars
    /\ UNCHANGED worker_vars

GetAudioMel == GetItem("AudioMelDataset")
GetAudio == GetItem("AudioDataset")
GetMel == GetItem("MelDataset")
GetParallelVCMel == GetItem("ParallelVCMelDataset")
GetSourceVCMel == GetItem("SourceVCMelDataset")

Init ==
    /\ fs = [src |-> NoTree, trg |-> NoTree]
    /\ args = NoArgs
    /\ self = NoDataset
    /\ caches = <<>>
    /\ raised = NoError
    /\ log = <<>>
    /\ last = NoCall
    /\ first = <<>>
    /\ pc = "idle"
    /\ cli = NoCli
    /\ env = NoEnv
    /\ io = NoIo
    /\ written = {}
    /\ idx = 0
    /\ workers = <<>>
    /\ stores = <<>>
    /\ calls = 0

Next ==
    \/ NewAudioMelDataset
    \/ NewAudioDataset
    \/ NewMelDataset
    \/ NewParallelVCMelDataset
    \/ NewSourceVCMelDataset
    \/ GetAudioMel
    \/ GetAudio
    \/ GetMel
    \/ GetParallelVCMel
    \/ GetSourceVCMel

Spec == Init /\ [][Next]_vars

(***************************************************************************)
(* Properties of the dataset layer.                                        *)
(***************************************************************************)
\* the utterance id a file name carries: its stem
stem(f) == splitext0(basename(f))

\* the sorted discovery order of a root under a query
discovered(root, query) == sorted(find_files(fs[root], query))

Constructed == self.class # "none"
Attempted(class) == args.class = class

\* the two file lists of a multi-modal constructor call
first_list ==
    IF args.class \in {"ParallelVCMelDataset", "SourceVCMelDataset"}
    THEN discovered("src", args.mel_query)
    ELSE discovered("src", args.audio_query)
second_list ==
    IF args.class = "ParallelVCMelDataset"
    THEN discovered("trg", args.mel_query)
    ELSE discovered("src", args.mel_query)

\* C1: in a ParallelVCMelDataset, the source array and the target array that
\* dataset[i] returns are loaded from files of the same utterance id, and
\* with return_utt_id that id is the one returned with them.
C1_PairedByUttId ==
    (self.class = "ParallelVCMelDataset" /\ last.idx # 0) =>
        LET n == Len(last.items.elems)
            src_mel == last.items.elems[n - 1]
            trg_mel == last.items.elems[n]
        IN  /\ src_mel.root = "src"
            /\ trg_mel.root = "trg"
            /\ stem(src_mel.file) = stem(trg_mel.file)
            /\ self.return_utt_id =>
                   last.items.elems[1].val = stem(src_mel.file)

\* the item built from the i-th file of the sorted discovery order
items_of(arrays, id) ==
    IF self.return_utt_id THEN tuple(<<str(id)>> \o arrays)
    ELSE IF Len(arrays) = 1 THEN arrays[1]
    ELSE tuple(arrays)

expected_item(i) ==
    LET A == discovered("src", args.audio_query)
        M == discovered("src", args.mel_query)
        T == discovered("trg", args.mel_query)
    IN  CASE self.class = "AudioMelDataset" ->
                 items_of(<<ndarray("src", fs.src, "audio_load_fn", A[i]),
                            ndarray("src", fs.src, "mel_load_fn", M[i])>>,
                          utt_ids_wave(args.audio_query, <<A[i]>>)[1])
          [] self.class = "AudioDataset" ->
                 items_of(<<ndarray("src", fs.src, "audio_load_fn", A[i])>>,
                          utt_ids_wave(args.audio_query, <<A[i]>>)[1])
          [] self.class = "MelDataset" ->
                 items_of(<<ndarray("src", fs.src, "mel_load_fn", M[i])>>,
                          utt_ids_feats(args.mel_query, <<M[i]>>)[1])
          [] self.class = "ParallelVCMelDataset" ->
                 items_of(<<ndarray("src", fs.src, "src_load_fn", M[i]),
                            ndarray("trg", fs.trg, "trg_load_fn", T[i])>>,
                          stem(M[i]))
          [] self.class = "SourceVCMelDataset" ->
                 items_of(<<ndarray("src", fs.src, "mel_load_fn", M[i])>>,
                          stem(M[i]))

\* the number of files of the root that match the query
matching ==
    IF args.class \in {"AudioMelDataset", "AudioDataset"}
    THEN Cardinality(find_files(fs.src, args.audio_query))
    ELSE Cardinality(find_files(fs.src, args.mel_query))

NoThreshold ==
    /\ args.audio_length_threshold = None
    /\ args.mel_length_threshold = None

\* C2: a dataset of any class constructed with no length threshold over N
\* matching files has length N, and dataset[i] returns, for every i below N,
\* the item built from the i-th file of the sorted discovery order.
C2_LengthAndItems ==
    (Constructed /\ NoThreshold) =>
        /\ __len__(self) = matching
        /\ \A i \in 1..matching :
               __getitem__(self, fs, caches, i).items = expected_item(i)

\* C3: with the cache on, a dataset[i] that follows an earlier dataset[i]
\* returns what the first call stored and calls no load function; with the
\* cache off every dataset[i] calls the load functions.
C3_SecondGetIsCached ==
    (Constructed /\ last.idx # 0) =>
        /\ (self.allow_cache /\ last.again) =>
               (last.loads = 0 /\ last.items = first[last.idx])
        /\ ~self.allow_cache => last.loads > 0

\* s without the marker it ends with, s itself when it does not end with it
strip_marker(s, marker) ==
    IF /\ Len(marker) <= Len(s)
       /\ SubSeq(s, Len(s) - Len(marker) + 1, Len(s)) = marker
    THEN SubSeq(s, 1, Len(s) - Len(marker))
    ELSE s

\* C4: a SourceVCMelDataset with return_utt_id returns, in sorted order,
\* the utterance id of each file: its stem without the trailing "-feats"
\* when the query names the flat-array format (.npy), its bare stem
\* otherwise.
C4_SourceUttIds ==
    (self.class = "SourceVCMelDataset" /\ self.return_utt_id /\ last.idx # 0)
    =>  LET f == discovered("src", args.mel_query)[last.idx]
        IN  /\ last.items.elems[2].file = f
            /\ last.items.elems[1].val =
                   IF Contains(args.mel_query, ext_npy)
                   THEN strip_marker(stem(f), <<"-", "f", "e", "a", "t", "s">>)
                   ELSE stem(f)

\* whether a length passes a threshold
passes(length, threshold) == threshold = None \/ length > threshold[1]

\* the original indices the length filter keeps, given the two discovered
\* lists A and M of the constructor call: those present in every list whose
\* arrays all pass the threshold of their modality
survivors(A, M) ==
    CASE args.class = "AudioMelDataset" ->
             { i \in 1..Min(Len(A), Len(M)) :
                 /\ passes(fs.src[A[i]], args.audio_length_threshold)
                 /\ passes(fs.src[M[i]], args.mel_length_threshold) }
      [] args.class = "AudioDataset" ->
             { i \in 1..Len(A) :
                 passes(fs.src[A[i]], args.audio_length_threshold) }
      [] args.class = "MelDataset" ->
             { i \in 1..Len(M) :
                 passes(fs.src[M[i]], args.mel_length_threshold) }

Filtering == args.class \in {"AudioMelDataset", "AudioDataset", "MelDataset"}

\* C5: the length of a constructed dataset is the number of discovered items
\* whose lengths are strictly greater than the thresholds given; the items
\* kept are in their original order, and every modality list keeps the same
\* original indices.
C5_LengthFilter ==
    (Constructed /\ Filtering) =>
        LET A == first_list
            M == second_list
            kept == ascending(survivors(A, M))
        IN  /\ __len__(self) = Len(kept)
            /\ self.class \in {"AudioMelDataset", "AudioDataset"} =>
                   self.audio_files = take(A, kept)
            /\ self.class \in {"AudioMelDataset", "MelDataset"} =>
                   self.mel_files = take(M, kept)

C5_Witness ==
    /\ self.class = "AudioMelDataset"
    /\ args.audio_length_threshold # None
    /\ args.mel_length_threshold # None
    /\ Len(first_list) = Len(second_list)
    /\ __len__(self) >= 1
    /\ __len__(self) < Len(first_list)

\* some list of the constructor call is empty, or the filter removes all
NothingLeft ==
    LET A == first_list
        M == second_list
    IN  CASE args.class = "AudioMelDataset" ->
                 Len(A) = 0 \/ Len(M) = 0 \/ survivors(A, M) = {}
          [] args.class \in {"AudioDataset", "MelDataset"} ->
                 survivors(A, M) = {}
          [] args.class = "ParallelVCMelDataset" -> Len(A) = 0 \/ Len(M) = 0
          [] args.class = "SourceVCMelDataset" -> Len(A) = 0
          [] OTHER -> FALSE

\* C6: a constructor call that finds no file, or whose filter removes every
\* file, raises; no dataset of length 0 exists.
C6_NeverEmpty ==
    /\ NothingLeft => (raised # NoError /\ ~Constructed)
    /\ Constructed => __len__(self) > 0

C6_Witness ==
    /\ Attempted("MelDataset")
    /\ Len(second_list) > 0
    /\ survivors(first_list, second_list) = {}
    /\ raised.type = "AssertionError"

\* the utterance-id sets of the two roots of a ParallelVCMelDataset call
src_ids == { stem(first_list[k]) : k \in 1..Len(first_list) }
trg_ids == { stem(second_list[k]) : k \in 1..Len(second_list) }

\* C7: a ParallelVCMelDataset call whose two utterance-id sets differ raises,
\* and the error reports the ids present in only one of the two sets,
\* whichever the side.
C7_SymmetricDifference ==
    (/\ Attempted("ParallelVCMelDataset")
     /\ src_ids # {} /\ trg_ids # {}
     /\ src_ids # trg_ids)
    =>  /\ raised.type = "AssertionError"
        /\ raised.msg.text = "utt ids"
        /\ raised.msg.difference =
               (src_ids \ trg_ids) \cup (trg_ids \ src_ids)

MultiModal == args.class \in {"AudioMelDataset", "ParallelVCMelDataset"}

\* C8: an AudioMelDataset or ParallelVCMelDataset call whose two discovered
\* file lists differ in length raises, whatever the thresholds.
C8_EqualCardinality ==
    (MultiModal /\ Len(first_list) # Len(second_list)) =>
        (raised # NoError /\ ~Constructed)

\* C10: a filter that drops an item and keeps an item does not fail the
\* constructor: the drop is logged as a warning with the counts, and the
\* dataset holds the items kept.
C10_DropIsWarning ==
    Filtering =>
        LET A == first_list
            M == second_list
            kept == survivors(A, M)
            found == IF args.class = "MelDataset" THEN Len(M) ELSE Len(A)
        IN  (/\ args.class = "AudioMelDataset" => Len(A) = Len(M)
             /\ kept # {}
             /\ Cardinality(kept) < found)
            =>  /\ raised = NoError
                /\ self.class = args.class
                /\ __len__(self) = Cardinality(kept)
                /\ log # <<>>
                /\ \A k \in 1..Len(log) :
                       /\ log[k].level = "warning"
                       /\ log[k].after < log[k].before

(***************************************************************************)
(* The decode driver: main() of vc_decode.py, one action per step.  The    *)
(* external collaborators (the configuration and statistics files, the     *)
(* checkpoint, the model, the vocoder, the plots and the writers) either   *)
(* do their work or raise.                                                 *)
(***************************************************************************)
Error(type) == [type |-> type]

DumpdirCatalog == { h5(u1), h5(u2), h5(u3), u1 \o feats_npy }

\* the check with its second clause lost: only "both given" is rejected
ambiguous_source_both_only(c) == c.feats_scp /\ c.dumpdir

\* (feats_scp is not None and dumpdir is not None)
\*     or (feats_scp is None and dumpdir is None)
ambiguous_source(c) ==
    \/ c.feats_scp /\ c.dumpdir
    \/ ~c.feats_scp /\ ~c.dumpdir

\* the dataset branch taken whenever either source is given
dumpdir_or_feats_scp(c) == c.dumpdir \/ c.feats_scp

\* if args.dumpdir is not None
dumpdir_is_not_None(c) == c.dumpdir

\* the driver stops with an exception
Abort(exc) ==
    /\ pc' = "error"
    /\ raised' = exc

\* args = parser.parse_args() has returned
InitDecode ==
    /\ fs \in { [src |-> tree, trg |-> NoTree] :
                  tree \in Trees(DumpdirCatalog, {MaxLen}) }
    /\ args = NoArgs
    /\ self = NoDataset
    /\ caches = <<>>
    /\ raised = NoError
    /\ log = <<>>
    /\ last = NoCall
    /\ first = <<>>
    /\ pc = "set_logger"
    /\ cli \in [feats_scp : BOOLEAN, dumpdir : BOOLEAN, verbose : 0..2]
    /\ env \in [outdir : BOOLEAN]
    /\ io = NoIo
    /\ written = {}
    /\ idx = 0
    /\ workers = <<>>
    /\ stores = <<>>
    /\ calls = 0

\* set logger
SetLogger ==
    /\ pc = "set_logger"
    /\ io' = [io EXCEPT !.level = CASE cli.verbose > 1 -> "DEBUG"
                                    [] cli.verbose > 0 -> "INFO"
                                    [] OTHER -> "WARN"]
    /\ log' = IF cli.verbose > 0 THEN log
              ELSE log \o <<[level |-> "warning",
                             what |-> "Skip DEBUG/INFO messages",
                             before |-> 0, after |-> 0]>>
    /\ pc' = "check_outdir"
    /\ UNCHANGED <<fs, args, self, caches, raised, last, first, cli, env,
                   written, idx>>
    /\ UNCHANGED worker_vars

\* check directory existence
MakeOutdir ==
    /\ pc = "check_outdir"
    /\ env' = [env EXCEPT !.outdir = TRUE]
    /\ io' = [io EXCEPT !.makedirs = ~env.outdir]
    /\ pc' = "load_config"
    /\ UNCHANGED <<fs, args, self, caches, raised, log, last, first, cli,
                   written, idx>>
    /\ UNCHANGED worker_vars

\* load config: the file opens and parses, or the read raises
LoadConfig ==
    /\ pc = "load_config"
    /\ \/ /\ \E v \in {"absent", "s3prl_vc", "other"} :
                io' = [io EXCEPT !.config = TRUE, !.vocoder_type = v]
          /\ pc' = "load_stats"
          /\ UNCHANGED raised
       \/ /\ Abort(Error("FileNotFoundError"))
          /\ UNCHANGED io
    /\ UNCHANGED <<fs, args, self, caches, log, last, first, cli, env,
                   written, idx>>
    /\ UNCHANGED worker_vars

\* load target stats for denormalization
LoadStats ==
    /\ pc = "load_stats"
    /\ \/ /\ io' = [io EXCEPT !.trg_stats = TRUE]
          /\ pc' = "check_arguments"
          /\ UNCHANGED raised
       \/ /\ Abort(Error("OSError"))
          /\ UNCHANGED io
    /\ UNCHANGED <<fs, args, self, caches, log, last, first, cli, env,
                   written, idx>>
    /\ UNCHANGED worker_vars

\* check arguments
CheckArguments ==
    /\ pc = "check_arguments"
    /\ IF ambiguous_source(cli)
       THEN Abort(Error("ValueError"))
       ELSE pc' = "get_dataset" /\ UNCHANGED raised
    /\ UNCHANGED <<fs, args, self, caches, log, last, first, cli, env, io,
                   written, idx>>
    /\ UNCHANGED worker_vars

\* get dataset
GetDataset ==
    /\ pc = "get_dataset"
    /\ IF dumpdir_is_not_None(cli)
       THEN LET out == SourceVCMelDataset__init__(fs.src, query_h5, TRUE,
                                                  FALSE)
            IN  /\ args' = [NoArgs EXCEPT !.class = "SourceVCMelDataset",
                                          !.mel_query = query_h5]
                /\ self' = out.self
                /\ caches' = <<>>
                /\ first' = empty_caches(__len__(out.self))
                /\ IF out.raised = NoError
                   THEN pc' = "load_model" /\ UNCHANGED raised
                   ELSE Abort(out.raised)
       ELSE /\ Abort(Error("NotImplementedError"))
            /\ UNCHANGED <<args, self, caches, first>>
    /\ UNCHANGED <<fs, log, last, cli, env, io, written, idx>>
    /\ UNCHANGED worker_vars

\* setup device; get model and load parameters
LoadModel ==
    /\ pc = "load_model"
    /\ \/ /\ io' = [io EXCEPT !.model = TRUE]
          /\ pc' = "load_vocoder"
          /\ UNCHANGED raised
       \/ /\ Abort(Error("RuntimeError"))
          /\ UNCHANGED io
    /\ UNCHANGED <<fs, args, self, caches, log, last, first, cli, env,
                   written, idx>>
    /\ UNCHANGED worker_vars

\* if config.get("vocoder", False)
has_vocoder == io.vocoder_type # "absent"

\* load vocoder if provided
LoadVocoder ==
    /\ pc = "load_vocoder"
    /\ IF has_vocoder
       THEN \/ /\ io' = [io EXCEPT !.vocoder = TRUE]
               /\ pc' = "next_item"
               /\ UNCHANGED raised
            \/ /\ Abort(Error("RuntimeError"))
               /\ UNCHANGED io
       ELSE pc' = "next_item" /\ UNCHANGED <<io, raised>>
    /\ UNCHANGED <<fs, args, self, caches, log, last, first, cli, env,
                   written, idx>>
    /\ UNCHANGED worker_vars

\* for idx, (utt_id, x) in enumerate(pbar, 1): the iterator asks the
\* dataset for the next index, and ends on the IndexError past the last
NextItem ==
    /\ pc = "next_item"
    /\ IF idx >= __len__(self)
       THEN /\ pc' = "done"
            /\ UNCHANGED <<raised, last, first, caches>>
       ELSE \/ LET got == __getitem__(self, fs, caches, idx + 1)
               IN  /\ caches' = got.caches
                   /\ last' = [idx |-> idx + 1, items |-> got.items,
                               loads |-> got.loads,
                               again |-> first[idx + 1] # tuple(<<>>)]
                   /\ first' = [first EXCEPT ![idx + 1] = got.items]
                   /\ pc' = "inference"
                   /\ UNCHANGED raised
            \/ /\ Abort(Error("OSError"))
               /\ UNCHANGED <<last, first, caches>>
    /\ UNCHANGED <<fs, args, self, log, cli, env, io, written, idx>>
    /\ UNCHANGED worker_vars

\* every artifact named after the last utterance of the dataset
utt_id_of_last_item == str(self.utt_ids[__len__(self)]).val

\* the utterance the loop is working on
utt_id == last.items.elems[1].val

artifact(utt, kind) == [utt_id |-> utt, kind |-> kind]

\* actually decoding
Inference ==
    /\ pc = "inference"
    /\ \/ pc' = "plot" /\ UNCHANGED raised
       \/ Abort(Error("RuntimeError"))
    /\ UNCHANGED <<fs, args, self, caches, log, last, first, cli, env, io,
                   written, idx>>
    /\ UNCHANGED worker_vars

\* plot figures: three plots in turn, each of which may raise
PlotFigures ==
    /\ pc = "plot"
    /\ LET plots == <<"outs", "probs", "att_ws">>
       IN  \E done \in 0..3 :
              /\ written' = written \cup
                     { artifact(utt_id, plots[k]) : k \in 1..done }
              /\ IF done = 3
                 THEN pc' = "write_feats" /\ UNCHANGED raised
                 ELSE Abort(Error("RuntimeError"))
    /\ UNCHANGED <<fs, args, self, caches, log, last, first, cli, env, io,
                   idx>>
    /\ UNCHANGED worker_vars

\* write feats
WriteFeats ==
    /\ pc = "write_feats"
    /\ \/ /\ written' = written \cup {artifact(utt_id, "feats")}
          /\ pc' = "write_wav"
          /\ UNCHANGED raised
       \/ /\ Abort(Error("OSError"))
          /\ UNCHANGED written
    /\ UNCHANGED <<fs, args, self, caches, log, last, first, cli, env, io,
                   idx>>
    /\ UNCHANGED worker_vars

\* write waveform if vocoder is provided; the loop body ends
WriteWaveform ==
    /\ pc = "write_wav"
    /\ IF has_vocoder
       THEN \/ /\ written' = written \cup {artifact(utt_id, "wav")}
               /\ pc' = "next_item"
               /\ idx' = idx + 1
               /\ UNCHANGED raised
            \/ /\ Abort(Error("RuntimeError"))
               /\ UNCHANGED <<written, idx>>
       ELSE /\ pc' = "next_item"
            /\ idx' = idx + 1
            /\ UNCHANGED <<written, raised>>
    /\ UNCHANGED <<fs, args, self, caches, log, last, first, cli, env, io>>
    /\ UNCHANGED worker_vars

NextDecode ==
    \/ SetLogger
    \/ MakeOutdir
    \/ LoadConfig
    \/ LoadStats
    \/ CheckArguments
    \/ GetDataset
    \/ LoadModel
    \/ LoadVocoder
    \/ NextItem
    \/ Inference
    \/ PlotFigures
    \/ WriteFeats
    \/ WriteWaveform

SpecDecode == InitDecode /\ [][NextDecode]_vars

(***************************************************************************)
(* Properties of the decode driver.                                        *)
(***************************************************************************)
\* both input-source flags given, or neither
BadFlags == (cli.feats_scp /\ cli.dumpdir) \/ (~cli.feats_scp /\ ~cli.dumpdir)

\* the states of main() after the argument check
AfterCheck ==
    pc \in {"get_dataset", "load_model", "load_vocoder", "next_item",
            "inference", "plot", "write_feats", "write_wav", "done"}

\* C9 as stated: with both input-source flags or neither, the driver aborts
\* with the configuration error before it creates the output directory,
\* reads the configuration or the target statistics, or opens a dataset.
C9_AbortBeforeAnyIO ==
    BadFlags =>
        /\ ~io.makedirs
        /\ ~io.config
        /\ ~io.trg_stats
        /\ ~Constructed
        /\ pc = "error" => raised.type = "ValueError"

\* C9 as amended: with both input-source flags or neither, the driver never
\* gets past the argument check: it opens no dataset, loads no model or
\* vocoder and writes no artifact.  The check raises the configuration
\* error, and it does so only after the output directory has been looked
\* for (and created when missing) and the configuration and the target
\* statistics have been read; before that, only a failed read ends the run.
C9_AbortBeforeDataset ==
    /\ BadFlags =>
           /\ ~AfterCheck
           /\ ~Constructed /\ args = NoArgs
           /\ ~io.model /\ ~io.vocoder
           /\ written = {}
           /\ (pc = "error" /\ io.trg_stats) => raised.type = "ValueError"
           /\ (pc = "error" /\ ~io.trg_stats) =>
                  raised.type \in {"FileNotFoundError", "OSError"}
    /\ raised.type = "ValueError" =>
           /\ BadFlags
           /\ pc = "error"
           /\ env.outdir /\ io.config /\ io.trg_stats

C9_Witness ==
    /\ BadFlags
    /\ pc = "error"
    /\ raised.type = "ValueError"
    /\ io.makedirs
    /\ io.config
    /\ io.trg_stats
    /\ DOMAIN fs.src # {}

\* only the scp-style index file is given
ScpOnly == cli.feats_scp /\ ~cli.dumpdir

\* only the dump directory is given
DumpdirOnly == cli.dumpdir /\ ~cli.feats_scp

\* C11: with only the scp-style index file given, the driver never
\* constructs a dataset, loads a model or a vocoder, reaches the decoding
\* loop or writes an artifact; once its set-up reads have succeeded the run
\* ends with NotImplementedError, raised at the dataset step.  A dataset is
\* constructed only when the dump directory alone is given, and
\* NotImplementedError is raised only on the scp-only path.
C11_ScpNotImplemented ==
    /\ ScpOnly =>
           /\ ~Constructed /\ args = NoArgs
           /\ ~io.model /\ ~io.vocoder
           /\ pc \notin {"load_model", "load_vocoder", "next_item",
                         "inference", "plot", "write_feats", "write_wav",
                         "done"}
           /\ last = NoCall
           /\ written = {}
           /\ (pc = "error" /\ io.trg_stats) =>
                  raised.type = "NotImplementedError"
    /\ (Constructed \/ args # NoArgs) => DumpdirOnly
    /\ raised.type = "NotImplementedError" =>
           ScpOnly /\ pc = "error" /\ io.config /\ io.trg_stats

C11_Witness ==
    /\ ScpOnly
    /\ pc = "error"
    /\ raised.type = "NotImplementedError"
    /\ DOMAIN fs.src # {}
    /\ ~Constructed
    /\ written = {}

(***************************************************************************)
(* Worker processes.  A data loader forks NumWorkers workers off a         *)
(* constructed dataset with allow_cache; each holds a proxy to the one     *)
(* manager list self.caches.  Every proxy call (a read of caches[idx], the *)
(* assignment caches[idx] = items) is one request served by the manager,   *)
(* so it is one step; the workers' steps interleave freely.                *)
(***************************************************************************)
Workers == 1..NumWorkers

WorkerCatalog == { h5(u1), h5(u2) }
WorkerLens == {0, MaxLen}

Idle == [pc |-> "idle", idx |-> 0, items |-> tuple(<<>>), ret |-> tuple(<<>>)]

\* the constructor calls the workers' datasets come from: allow_cache=True
WorkerDatasets ==
    LET T == Trees(WorkerCatalog, WorkerLens)
    IN  { [fs |-> [src |-> t, trg |-> NoTree],
           args |-> [class |-> "AudioMelDataset", audio_query |-> query_h5,
                     mel_query |-> query_h5, audio_length_threshold |-> None,
                     mel_length_threshold |-> None],
           out |-> AudioMelDataset__init__(t, query_h5, query_h5, None, None,
                                           r, TRUE)] :
          t \in T, r \in BOOLEAN }
        \cup
        { [fs |-> [src |-> t, trg |-> NoTree],
           args |-> [NoArgs EXCEPT !.class = "AudioDataset",
                                   !.audio_query = query_h5],
           out |-> AudioDataset__init__(t, query_h5, None, r, TRUE)] :
          t \in T, r \in BOOLEAN }
        \cup
        { [fs |-> [src |-> t, trg |-> NoTree],
           args |-> [NoArgs EXCEPT !.class = "MelDataset",
                                   !.mel_query = query_h5],
           out |-> MelDataset__init__(t, query_h5, None, r, TRUE)] :
          t \in T, r \in BOOLEAN }
        \cup
        { [fs |-> [src |-> t, trg |-> t],
           args |-> [NoArgs EXCEPT !.class = "ParallelVCMelDataset",
                                   !.mel_query = query_h5],
           out |-> ParallelVCMelDataset__init__(t, t, query_h5, r, TRUE)] :
          t \in T, r \in BOOLEAN }
        \cup
        { [fs |-> [src |-> t, trg |-> NoTree],
           args |-> [NoArgs EXCEPT !.class = "SourceVCMelDataset",
                                   !.mel_query = query_h5],
           out |-> SourceVCMelDataset__init__(t, query_h5, r, TRUE)] :
          t \in T, r \in BOOLEAN }

\* the dataset is constructed, the workers are forked and idle
InitWorkers ==
    /\ \E d \in WorkerDatasets :
          /\ d.out.raised = NoError
          /\ fs = d.fs
          /\ args = d.args
          /\ self = d.out.self
          /\ log = d.out.log
    /\ caches = empty_caches(__len__(self))
    /\ raised = NoError
    /\ last = NoCall
    /\ first = empty_caches(__len__(self))
    /\ pc = "idle"
    /\ cli = NoCli
    /\ env = NoEnv
    /\ io = NoIo
    /\ written = {}
    /\ idx = 0
    /\ workers = [w \in Workers |-> Idle]
    /\ stores = [i \in 1..__len__(self) |-> 0]
    /\ calls = 0

\* what the load branch of __getitem__ builds for idx
loaded(i) ==
    __getitem__([self EXCEPT !.allow_cache = FALSE], fs, caches, i).items

\* a worker's sampler hands it an index: dataset[i] starts
Call ==
    /\ calls < MaxCalls
    /\ \E w \in Workers, i \in 1..__len__(self) :
          /\ workers[w].pc \in {"idle", "returned"}
          /\ workers' = [workers EXCEPT ![w] = [Idle EXCEPT !.pc = "check",
                                                            !.idx = i]]
    /\ calls' = calls + 1
    /\ UNCHANGED <<dataset_vars, driver_vars, stores>>

\* if self.allow_cache and len(self.caches[idx]) != 0
CheckCache ==
    /\ \E w \in Workers :
          /\ workers[w].pc = "check"
          /\ workers' = [workers EXCEPT ![w].pc =
                            IF cache_hit(self, caches, workers[w].idx)
                            THEN "hit" ELSE "load"]
    /\ UNCHANGED <<dataset_vars, driver_vars, stores, calls>>

\* return self.caches[idx]
ReturnCached ==
    /\ \E w \in Workers :
          /\ workers[w].pc = "hit"
          /\ workers' = [workers EXCEPT ![w].pc = "returned",
                                        ![w].ret = caches[workers[w].idx]]
    /\ UNCHANGED <<dataset_vars, driver_vars, stores, calls>>

\* the load functions read the files of idx; items is built
Load ==
    /\ \E w \in Workers :
          /\ workers[w].pc = "load"
          /\ workers' = [workers EXCEPT ![w].pc = "store",
                                        ![w].items = loaded(workers[w].idx)]
    /\ UNCHANGED <<dataset_vars, driver_vars, stores, calls>>

\* if self.allow_cache: self.caches[idx] = items; return items
Store ==
    /\ \E w \in Workers :
          /\ workers[w].pc = "store"
          /\ caches' = store(self, caches, workers[w].idx, workers[w].items)
          /\ stores' = IF self.allow_cache
                       THEN [stores EXCEPT ![workers[w].idx] = @ + 1]
                       ELSE stores
          /\ workers' = [workers EXCEPT ![w].pc = "returned",
                                        ![w].ret = workers[w].items]
    /\ UNCHANGED <<fs, args, self, raised, log, last, first>>
    /\ UNCHANGED <<driver_vars, calls>>

NextWorkers ==
    \/ Call
    \/ CheckCache
    \/ ReturnCached
    \/ Load
    \/ Store

SpecWorkers == InitWorkers /\ [][NextWorkers]_vars

(***************************************************************************)
(* Properties of the shared cache.                                         *)
(***************************************************************************)
\* the item of index i: the arrays of the files the dataset holds at i,
\* with the utterance id it holds at i when return_utt_id is on
complete_item(i) ==
    CASE self.class = "AudioMelDataset" ->
             items_of(<<ndarray("src", fs.src, "audio_load_fn",
                                self.audio_files[i]),
                        ndarray("src", fs.src, "mel_load_fn",
                                self.mel_files[i])>>, self.utt_ids[i])
      [] self.class = "AudioDataset" ->
             items_of(<<ndarray("src", fs.src, "audio_load_fn",
                                self.audio_files[i])>>, self.utt_ids[i])
      [] self.class = "MelDataset" ->
             items_of(<<ndarray("src", fs.src, "mel_load_fn",
                                self.mel_files[i])>>, self.utt_ids[i])
      [] self.class = "ParallelVCMelDataset" ->
             items_of(<<ndarray("src", fs.src, "src_load_fn",
                                self.src_mel_files[i]),
                        ndarray("trg", fs.trg, "trg_load_fn",
                                self.trg_mel_files[i])>>, self.utt_ids[i])
      [] self.class = "SourceVCMelDataset" ->
             items_of(<<ndarray("src", fs.src, "mel_load_fn",
                                self.src_mel_files[i])>>, self.utt_ids[i])

Slots == 1..__len__(self)

\* C12: with the cache on and the workers' calls interleaved in any way,
\* every slot of the shared cache is at every moment the empty tuple or the
\* complete item of its own index, and every dataset[i] that has returned,
\* from the cache or from the files, returned the item of index i.
C12_SlotsEmptyOrComplete ==
    (workers # <<>>) =>
        /\ Len(caches) = __len__(self)
        /\ \A i \in Slots : caches[i] \in {tuple(<<>>), complete_item(i)}
        /\ \A w \in Workers :
               /\ workers[w].pc = "returned" =>
                      workers[w].ret = complete_item(workers[w].idx)
               /\ workers[w].pc = "hit" =>
                      caches[workers[w].idx] = complete_item(workers[w].idx)

\* two workers raced on one index: both loaded and stored, both returned
C12_Witness ==
    /\ workers # <<>>
    /\ __len__(self) > 1
    /\ \E i \in Slots :
          /\ stores[i] >= 2
          /\ len(caches[i]) # 0
          /\ \E w1 \in Workers, w2 \in Workers :
                /\ w1 # w2
                /\ workers[w1].pc = "returned" /\ workers[w1].idx = i
                /\ workers[w2].pc = "hit" /\ workers[w2].idx = i

\* C13: with the cache on, each slot of the shared cache is assigned at
\* most once, whatever the sequence or interleaving of the workers' calls.
C13_SlotWrittenOnce ==
    \A i \in DOMAIN stores : stores[i] <= 1

(***************************************************************************)
(* Properties of the decoding loop.                                        *)
(***************************************************************************)
InLoop == pc \in {"inference", "plot", "write_feats", "write_wav"}

\* the positions, in dataset order, of the utterances that have the artifact
Having(kind) ==
    { k \in Slots : artifact(str(self.utt_ids[k]).val, kind) \in written }

\* the positions of the utterances that have any artifact at all
Touched ==
    { k \in Slots : \E a \in written : a.utt_id = str(self.utt_ids[k]).val }

\* the loop works through the sorted discovery order, one utterance at a
\* time, and nothing is written for an utterance after the one at work
InOrder ==
    /\ ~Constructed => (written = {} /\ idx = 0)
    /\ Constructed =>
           /\ self.src_mel_files = discovered("src", query_h5)
           /\ \A k \in Slots : self.utt_ids[k] = stem(self.src_mel_files[k])
           /\ idx \in 0..__len__(self)
           /\ Having("feats") \in {1..idx, 1..(idx + 1)}
           /\ has_vocoder => Having("wav") = 1..idx
           /\ Touched \subseteq 1..(idx + 1)
           /\ \A a \in written :
                  \E k \in Slots : a.utt_id = str(self.utt_ids[k]).val
           /\ InLoop =>
                  /\ last.idx = idx + 1
                  /\ idx < __len__(self)
                  /\ utt_id = str(self.utt_ids[idx + 1]).val
           /\ pc \in {"next_item", "done"} => Touched = 1..idx
           /\ pc = "done" => idx = __len__(self)
    /\ (pc = "error") = (raised # NoError)

\* a step finishes at most the utterance at work, never takes a file back,
\* and there is no step after an error
AbortStep ==
    /\ idx' \in {idx, idx + 1}
    /\ idx' = idx + 1 => artifact(utt_id, "feats") \in written'
    /\ written \subseteq written'
    /\ pc # "error"
    /\ pc # "done"

\* C14: the driver decodes the utterances one at a time in dataset order,
\* the sorted discovery order; the utterances whose converted features are
\* written always form a prefix of that order, no utterance is passed over,
\* and an error at any step of utterance k ends the run with nothing
\* written for any utterance after k.
C14_InOrderUntilError == []InOrder /\ [][AbortStep]_vars

\* utterance 2 of 3 failed after its first plots: utterance 1 is complete,
\* utterance 3 untouched, the run is over
C14_Witness ==
    /\ pc = "error"
    /\ Constructed
    /\ __len__(self) = 3
    /\ idx = 1
    /\ last.idx = 2
    /\ Having("feats") = {1}
    /\ Touched = {1, 2}

=============================================================================
